---- MODULE Spec2Model ----
(***************************************************************************)
(* Model of cache_simulator.cache_dataset.cache.Cache: a processor cache   *)
(* with direct, set-associative and fully associative mapping and LRU      *)
(* replacement.  Every set is an OrderedDict of tags, modelled as a        *)
(* sequence without repetitions whose head is the least recently used tag  *)
(* and whose last element is the most recently used one.                   *)
(*                                                                         *)
(* Model of cache_simulator.cache_dataset.patterns: the six generators of  *)
(* address sequences.  generate_sequence is a Python generator function:   *)
(* the call only creates the generator, and every next() runs its body up  *)
(* to the next yield, to the end of the loop or to a raise.                *)
(***************************************************************************)
EXTENDS Integers, Sequences, FiniteSets, TLC

\* ------------------------------------------------------------------ bounds
MaxLineSize == 2
MaxNumLines == 4
MaxAddress == 4
MaxMaxAddress == 3
MaxLength == 3
MaxStride == 4
MaxSampleLength == 1
MaxSeqLength == 2
MaxPulled == 3
MaxLine == 2

Addresses == 0..MaxAddress
Tags == 0..MaxAddress
NoAddress == -1
NoTag == -1

\* ------------------------------------------------------------------- state
VARIABLES
    line_size,       \* self.line_size
    num_lines,       \* self.num_lines
    associativity,   \* self.associativity
    num_sets,        \* self.num_sets
    lines_per_set,   \* self.lines_per_set
    cache,           \* self.cache: set index -> tags in LRU order (oldest first)
    tag_set,         \* self.tag_set
    raised,          \* exception that left the last call ("none" when it returned)
    last,            \* the last call: its name, its argument, its return value
                     \* (ret when a truth value, value when a number), whether it
                     \* found the tag resident and the tag it evicted
    touch,           \* history: tag -> rank of its most recent touch among the tags
                     \*          resident in its set (1 = oldest touch, 0 = not resident)
    hit_tag,         \* history: the tag of the watched probe hit (NoTag = none)
    hit_set,         \* history: the set of the watched probe hit
    pending,         \* history: the other tags resident at the watched hit that were
                     \*          neither touched nor evicted since
    no_miss_since,   \* history: no insert of a non-resident tag into the set of the
                     \*          watched hit since that hit
    inserted,        \* history: set index -> tags inserted since construction or reset
    gen,             \* the generator generate_sequence(**kwargs) returned: its
                     \* pattern, its kwargs, where it stands and its local variables
    out,             \* history: the addresses the generator yielded (their number,
                     \*          the last two, and in the trace specification all)
    driver,          \* the CacheDataset: its constructor arguments, where its
                     \* generate_data stands and the buffers it fills
    twin             \* a second Cache object, run side by side with the first

config == <<line_size, num_lines, associativity, num_sets, lines_per_set>>
history == <<touch, hit_tag, hit_set, pending, no_miss_since, inserted>>
vars == <<line_size, num_lines, associativity, num_sets, lines_per_set,
          cache, tag_set, raised, last, touch, hit_tag, hit_set, pending, no_miss_since,
          inserted, gen, out, driver, twin>>

\* ----------------------------------------------------------- OrderedDict
Keys(od) == {od[i] : i \in 1..Len(od)}

RECURSIVE Without(_, _)
Without(od, key) ==
    IF od = <<>> THEN <<>>
    ELSE IF Head(od) = key THEN Without(Tail(od), key)
    ELSE <<Head(od)>> \o Without(Tail(od), key)

\* Mutant: the LRU order is not updated.
move_to_end_noop(od, key) == od

\* OrderedDict.move_to_end(key): key becomes the last entry, the others keep
\* their order.
move_to_end(od, key) == Append(Without(od, key), key)

\* Mutant: popitem(last=True), the most recently used entry is removed.
popitem_last(od) == [key |-> od[Len(od)], od |-> SubSeq(od, 1, Len(od) - 1)]

\* OrderedDict.popitem(last=False): removes and returns the first entry.
popitem(od) == [key |-> Head(od), od |-> Tail(od)]

\* od[key] = None: a new key is appended, an existing key keeps its place.
setitem(od, key) == IF key \in Keys(od) THEN od ELSE Append(od, key)

\* ------------------------------------------------------------ construction
\* Mutant: direct mapping gets the counts of the fully associative cache.
CacheInit_swapped(ls, nl, a) ==
    IF a = 0 THEN [raised |-> "none", num_sets |-> 1, lines_per_set |-> nl]
    ELSE IF a = 1 THEN [raised |-> "none", num_sets |-> 1, lines_per_set |-> nl]
    ELSE IF nl % a # 0 THEN [raised |-> "ValueError", num_sets |-> 0, lines_per_set |-> 0]
    ELSE [raised |-> "none", num_sets |-> nl \div a, lines_per_set |-> a]

\* Mutant: the divisibility of num_lines is checked only for associativity
\* up to num_lines.
CacheInit_unchecked(ls, nl, a) ==
    IF a = 0 THEN [raised |-> "none", num_sets |-> 1, lines_per_set |-> nl]
    ELSE IF a = 1 THEN [raised |-> "none", num_sets |-> nl, lines_per_set |-> 1]
    ELSE IF a <= nl /\ nl % a # 0
    THEN [raised |-> "ValueError", num_sets |-> 0, lines_per_set |-> 0]
    ELSE [raised |-> "none", num_sets |-> nl \div a, lines_per_set |-> a]

\* Mutant: associativity is taken as the number of sets.
CacheInit_sets_by_ways(ls, nl, a) ==
    IF a = 0 THEN [raised |-> "none", num_sets |-> 1, lines_per_set |-> nl]
    ELSE IF a = 1 THEN [raised |-> "none", num_sets |-> nl, lines_per_set |-> 1]
    ELSE IF nl % a # 0 THEN [raised |-> "ValueError", num_sets |-> 0, lines_per_set |-> 0]
    ELSE [raised |-> "none", num_sets |-> a, lines_per_set |-> nl \div a]

\* Cache.__init__: the derived counts, or ValueError.
CacheInit(ls, nl, a) ==
    IF a = 0 THEN [raised |-> "none", num_sets |-> 1, lines_per_set |-> nl]
    ELSE IF a = 1 THEN [raised |-> "none", num_sets |-> nl, lines_per_set |-> 1]
    ELSE IF nl % a # 0 THEN [raised |-> "ValueError", num_sets |-> 0, lines_per_set |-> 0]
    ELSE [raised |-> "none", num_sets |-> nl \div a, lines_per_set |-> a]

\* Mutant: range(self.num_sets + 1).
EmptyCache_extra(n) == [set_idx \in 0..n |-> <<>>]

\* {set_idx: OrderedDict() for set_idx in range(self.num_sets)}
EmptyCache(n) == [set_idx \in 0..(n - 1) |-> <<>>]

\* ----------------------------------------------------------------- mapping
\* Mutant: the address itself is taken as the tag.
get_tag_address(address) == address

\* Mutant: the line address is rounded up.
get_tag_ceil(address) == (address + line_size - 1) \div line_size

get_tag(address) == address \div line_size

\* Mutant: the set is selected by the address, not by the line address.
get_set_index_by_address(address) ==
    IF associativity = 0 THEN 0
    ELSE address % num_sets

get_set_index(address) ==
    IF associativity = 0 THEN 0
    ELSE (address \div line_size) % num_sets

\* ------------------------------------------------------------- operations
\* The object state the methods read and write.
Self == [cache |-> cache, tag_set |-> tag_set]

\* Mutant: the set counts as full one entry too early.
is_full_early(od) == Len(od) + 1 >= lines_per_set

\* Mutant: the set counts as full one entry too late.
is_full_late(od) == Len(od) > lines_per_set

\* len(self.cache[set_idx]) >= self.lines_per_set
is_full(od) == Len(od) >= lines_per_set

\* Mutant: a miss loads the line.
is_in_cache_loading(self, address) ==
    LET set_idx == get_set_index(address)
        tag == get_tag(address)
    IN  IF tag \in Keys(self.cache[set_idx])
        THEN [ret |-> TRUE,
              self |-> [self EXCEPT !.cache[set_idx] = move_to_end(@, tag)]]
        ELSE [ret |-> FALSE,
              self |-> [cache |-> [self.cache EXCEPT ![set_idx] = Append(@, tag)],
                        tag_set |-> self.tag_set \cup {tag}]]

\* Cache.is_in_cache: the return value and the state it leaves.
is_in_cache(self, address) ==
    LET set_idx == get_set_index(address)
        tag == get_tag(address)
    IN  IF tag \in Keys(self.cache[set_idx])
        THEN [ret |-> TRUE,
              self |-> [self EXCEPT !.cache[set_idx] = move_to_end(@, tag)]]
        ELSE [ret |-> FALSE, self |-> self]

\* Mutant: an insert of a resident tag returns without updating the LRU order.
add_to_cache_no_touch(self, address) ==
    LET set_idx == get_set_index(address)
        tag == get_tag(address)
    IN  IF tag \in Keys(self.cache[set_idx])
        THEN [raised |-> "none", found |-> TRUE, lru_tag |-> NoTag, self |-> self]
        ELSE IF is_full(self.cache[set_idx])
        THEN LET popped == popitem(self.cache[set_idx])
             IN  [raised |-> "none", found |-> FALSE, lru_tag |-> popped.key,
                  self |-> [cache |-> [self.cache EXCEPT
                                         ![set_idx] = setitem(popped.od, tag)],
                            tag_set |-> (self.tag_set \ {popped.key}) \cup {tag}]]
        ELSE [raised |-> "none", found |-> FALSE, lru_tag |-> NoTag,
              self |-> [cache |-> [self.cache EXCEPT ![set_idx] = setitem(@, tag)],
                        tag_set |-> self.tag_set \cup {tag}]]

\* Mutant: a full set makes room by evicting from set 0.
add_to_cache_evict_set0(self, address) ==
    LET set_idx == get_set_index(address)
        tag == get_tag(address)
    IN  IF tag \in Keys(self.cache[set_idx])
        THEN [raised |-> "none", found |-> TRUE, lru_tag |-> NoTag,
              self |-> [self EXCEPT !.cache[set_idx] = move_to_end(@, tag)]]
        ELSE IF is_full(self.cache[set_idx])
        THEN IF self.cache[0] = <<>>
             THEN [raised |-> "KeyError", found |-> FALSE, lru_tag |-> NoTag,
                   self |-> self]
             ELSE LET popped == popitem(self.cache[0])
                      after_pop == [self.cache EXCEPT ![0] = popped.od]
                  IN  [raised |-> "none", found |-> FALSE, lru_tag |-> popped.key,
                       self |-> [cache |-> [after_pop EXCEPT ![set_idx] = setitem(@, tag)],
                                 tag_set |-> (self.tag_set \ {popped.key}) \cup {tag}]]
        ELSE [raised |-> "none", found |-> FALSE, lru_tag |-> NoTag,
              self |-> [cache |-> [self.cache EXCEPT ![set_idx] = setitem(@, tag)],
                        tag_set |-> self.tag_set \cup {tag}]]

\* Cache.add_to_cache: the state it leaves, whether it found the tag resident,
\* the tag it popped (lru_tag, NoTag when it popped none) and the exception it
\* ends with.
add_to_cache(self, address) ==
    LET set_idx == get_set_index(address)
        tag == get_tag(address)
    IN  IF tag \in Keys(self.cache[set_idx])
        THEN [raised |-> "none", found |-> TRUE, lru_tag |-> NoTag,
              self |-> [self EXCEPT !.cache[set_idx] = move_to_end(@, tag)]]
        ELSE IF is_full(self.cache[set_idx])
        THEN IF self.cache[set_idx] = <<>>
             THEN [raised |-> "KeyError", found |-> FALSE, lru_tag |-> NoTag,
                   self |-> self]
             ELSE LET popped == popitem(self.cache[set_idx])
                      lru_tag == popped.key
                      after_pop == [self EXCEPT !.cache[set_idx] = popped.od]
                  IN  IF lru_tag \notin self.tag_set
                      THEN [raised |-> "KeyError", found |-> FALSE,
                            lru_tag |-> lru_tag, self |-> after_pop]
                      ELSE [raised |-> "none", found |-> FALSE, lru_tag |-> lru_tag,
                            self |-> [cache |-> [after_pop.cache EXCEPT
                                                   ![set_idx] = setitem(@, tag)],
                                      tag_set |-> (self.tag_set \ {lru_tag}) \cup {tag}]]
        ELSE [raised |-> "none", found |-> FALSE, lru_tag |-> NoTag,
              self |-> [cache |-> [self.cache EXCEPT ![set_idx] = setitem(@, tag)],
                        tag_set |-> self.tag_set \cup {tag}]]

\* Mutant: only the first set is cleared.
reset_cache_first_set(self) ==
    [cache |-> [self.cache EXCEPT ![0] = <<>>],
     tag_set |-> self.tag_set \ Keys(self.cache[0])]

\* Mutant: the sets are cleared, the tag index is left as it was.
reset_cache_keep_index(self) ==
    [cache |-> EmptyCache(num_sets), tag_set |-> self.tag_set]

\* Cache.reset_cache.
reset_cache(self) == [cache |-> EmptyCache(num_sets), tag_set |-> {}]

\* ----------------------------------------------------------------- history
NoTouch == [t \in Tags |-> 0]

\* The ranks after a touch of tag t that leaves the tags R resident in t's set:
\* t has the newest touch, the other tags of R keep their relative order, the
\* tags that left the set have none, the tags of the other sets keep theirs.
Retouch(tch, before, R, t) ==
    [u \in Tags |->
        IF u = t THEN Cardinality(R)
        ELSE IF u \in R
        THEN 1 + Cardinality({v \in R \ {t} : tch[v] < tch[u]})
        ELSE IF u \in before THEN 0
        ELSE tch[u]]

\* --------------------------------------------------------------- generators
\* No generator was created.  branch is history: the branch the last
\* iteration of a stack or heap generator took.  params is the dict
\* generate_random_params returned, if the kwargs come from it.
NoGenerator ==
    [pattern |-> "none", max_address |-> 0, length |-> 0, param |-> 0, pc |-> "none",
     i |-> 0, start_address |-> 0, current_address |-> 0, stack_pointer |-> 0,
     current_depth |-> 0, base_address |-> 0, current_offset |-> 0,
     branch |-> "none", params |-> <<>>]

NoOutput == [count |-> 0, address |-> NoAddress, prev |-> NoAddress, trace |-> <<>>]

\* The constants of the pattern modules.  A probability is held in percent.
STACK_HEADROOM == 1000
MAX_STACK_DEPTH == 100
STACK_MOVE_MIN == 1
STACK_MOVE_MAX == 10
PUSH_PROBABILITY == 50
DEFAULT_MAX_HEAP_SIZE == 10000
ALLOC_MIN == 1
ALLOC_MAX == 100
ALLOCATION_PROBABILITY == 80
DEFAULT_EPSILON_MIN == 1
DEFAULT_EPSILON_MAX == 10
DEFAULT_LOOP_SIZE_MIN == 10
DEFAULT_LOOP_SIZE_MAX == 1000
DEFAULT_STRIDE_MIN == 1
DEFAULT_STRIDE_MAX == 16
DEFAULT_STACK_SIZE_MIN == 10
DEFAULT_STACK_SIZE_MAX == 100

Min(a, b) == IF a <= b THEN a ELSE b
Max(a, b) == IF a >= b THEN a ELSE b

\* random.randint(lo, hi): any integer of lo..hi.
randint(lo, hi) == lo..hi

\* random.random() < p / 100: the outcomes the comparison can have.
Chance(p) == {b \in BOOLEAN : (b => p > 0) /\ (~b => p < 100)}

\* A max_address a stack can use without clamping its start pointer.
StackFarAddress == 2 * STACK_HEADROOM + MaxMaxAddress

Patterns == {"sequential", "loop", "random", "stride", "stack", "heap"}

\* The kwargs a generator is created with.  param is the kwarg of the pattern:
\* epsilon (in percent), loop_size, stride or stack_size.
MaxAddressesOf(pattern) ==
    (-1..MaxMaxAddress) \cup (IF pattern = "stack" THEN {StackFarAddress} ELSE {})

Lengths == -1..MaxLength

ParamsOf(pattern) ==
    CASE pattern = "sequential" -> {-1, 0, 50, 100, 101}
      [] pattern = "loop" -> 0..(MaxMaxAddress + 1)
      [] pattern = "stride" -> 0..MaxStride
      [] pattern = "stack" -> {-1, 0, MAX_STACK_DEPTH - 1, MAX_STACK_DEPTH + 1}
      [] OTHER -> {0}

\* generate_sequence(**kwargs): the call returns a generator that has not
\* started to run.
Generators ==
    UNION {{[NoGenerator EXCEPT !.pattern = pattern, !.max_address = max_address,
                                !.length = length, !.param = param, !.pc = "created"] :
               max_address \in MaxAddressesOf(pattern), length \in Lengths,
               param \in ParamsOf(pattern)} :
           pattern \in Patterns}

validate_common_params_negative(max_address, length) ==
    IF max_address < 0 THEN "ValueError"
    ELSE IF length < 0 THEN "ValueError"
    ELSE "none"

validate_common_params(max_address, length) ==
    IF max_address <= 0 THEN "ValueError"
    ELSE IF length <= 0 THEN "ValueError"
    ELSE "none"

Raise(g) == [g EXCEPT !.pc = "raised"]

\* The generators entered, one per draw of random.randint: randint raises
\* ValueError when its range is empty.
OrRaise(g, entered) == IF entered = {} THEN {Raise(g)} ELSE entered

\* The end of an iteration of the loop: the generator is suspended at its
\* yield of address.
Yield(g, address) ==
    [gen |-> [g EXCEPT !.pc = "suspended", !.i = g.i + 1], yielded |-> <<address>>]

\* range(length) is exhausted: the generator returns.
Return(g) == [gen |-> [g EXCEPT !.pc = "done"], yielded |-> <<>>]

\* ---- SequentialPattern
SequentialEnter(g) ==
    IF validate_common_params(g.max_address, g.length) # "none" THEN {Raise(g)}
    ELSE IF ~(0 <= g.param /\ g.param <= 100) THEN {Raise(g)}
    ELSE OrRaise(g, {[g EXCEPT !.current_address = a] : a \in randint(0, g.max_address)})

SequentialIterate_no_wrap(g) ==
    IF g.i >= g.length THEN {Return(g)}
    ELSE UNION {IF jump
                THEN {Yield([g EXCEPT !.current_address = a], a) :
                         a \in randint(0, g.max_address)}
                ELSE LET a == Min(g.current_address + 1, g.max_address)
                     IN  {Yield([g EXCEPT !.current_address = a], a)} :
                jump \in Chance(g.param)}

SequentialIterate(g) ==
    IF g.i >= g.length THEN {Return(g)}
    ELSE UNION {IF jump
                THEN {Yield([g EXCEPT !.current_address = a], a) :
                         a \in randint(0, g.max_address)}
                ELSE LET a == (g.current_address + 1) % (g.max_address + 1)
                     IN  {Yield([g EXCEPT !.current_address = a], a)} :
                jump \in Chance(g.param)}

\* ---- LoopPattern
loop_address_no_wrap(start_address, i, loop_size) == start_address + i

loop_address(start_address, i, loop_size) == start_address + (i % loop_size)

LoopEnter_accepts_next(g) ==
    IF validate_common_params(g.max_address, g.length) # "none" THEN {Raise(g)}
    ELSE IF g.param < 1 \/ g.param > g.max_address + 1 THEN {Raise(g)}
    ELSE OrRaise(g, {[g EXCEPT !.start_address = a] :
                        a \in randint(0, Max(0, g.max_address - g.param))})

LoopEnter(g) ==
    IF validate_common_params(g.max_address, g.length) # "none" THEN {Raise(g)}
    ELSE IF g.param < 1 \/ g.param > g.max_address THEN {Raise(g)}
    ELSE OrRaise(g, {[g EXCEPT !.start_address = a] :
                        a \in randint(0, Max(0, g.max_address - g.param))})

LoopIterate(g) ==
    IF g.i >= g.length THEN {Return(g)}
    ELSE {Yield(g, loop_address(g.start_address, g.i, g.param))}

\* ---- RandomPattern
RandomEnter(g) ==
    IF validate_common_params(g.max_address, g.length) # "none" THEN {Raise(g)}
    ELSE {g}

RandomIterate(g) ==
    IF g.i >= g.length THEN {Return(g)}
    ELSE {Yield(g, a) : a \in randint(0, g.max_address)}

\* ---- StridePattern
stride_address_no_wrap(start_address, i, stride, max_address) ==
    Min(start_address + i * stride, max_address)

stride_address(start_address, i, stride, max_address) ==
    (start_address + i * stride) % (max_address + 1)

StrideEnter(g) ==
    IF validate_common_params(g.max_address, g.length) # "none" THEN {Raise(g)}
    ELSE IF g.param < 1 THEN {Raise(g)}
    ELSE OrRaise(g, {[g EXCEPT !.start_address = a] : a \in randint(0, g.max_address)})

StrideIterate(g) ==
    IF g.i >= g.length THEN {Return(g)}
    ELSE {Yield(g, stride_address(g.start_address, g.i, g.param, g.max_address))}

\* ---- StackPattern
stack_clamp_none(stack_pointer, max_address) == stack_pointer

stack_clamp(stack_pointer, max_address) == Max(0, Min(stack_pointer, max_address))

StackEnter_no_floor(g) ==
    IF validate_common_params(g.max_address, g.length) # "none" THEN {Raise(g)}
    ELSE IF g.param < 0 THEN {Raise(g)}
    ELSE LET safe_min == STACK_HEADROOM
             safe_max == g.max_address - STACK_HEADROOM
         IN  OrRaise(g, {[g EXCEPT !.stack_pointer = a, !.current_depth = g.param] :
                            a \in randint(safe_min, safe_max)})

StackEnter_whole_range(g) ==
    IF validate_common_params(g.max_address, g.length) # "none" THEN {Raise(g)}
    ELSE IF g.param < 0 THEN {Raise(g)}
    ELSE OrRaise(g, {[g EXCEPT !.stack_pointer = a, !.current_depth = g.param] :
                        a \in randint(g.max_address - 1, g.max_address)})

StackEnter(g) ==
    IF validate_common_params(g.max_address, g.length) # "none" THEN {Raise(g)}
    ELSE IF g.param < 0 THEN {Raise(g)}
    ELSE LET safe_min == STACK_HEADROOM
             safe_max == Max(STACK_HEADROOM, g.max_address - STACK_HEADROOM)
         IN  OrRaise(g, {[g EXCEPT !.stack_pointer = a, !.current_depth = g.param] :
                            a \in randint(safe_min, safe_max)})

StackMoves_unguarded(g) ==
    UNION {IF push
           THEN {[g EXCEPT !.stack_pointer = g.stack_pointer - d,
                           !.current_depth = g.current_depth + 1,
                           !.branch = "push"] :
                    d \in randint(STACK_MOVE_MIN, STACK_MOVE_MAX)}
           ELSE {[g EXCEPT !.stack_pointer = g.stack_pointer + d,
                           !.current_depth = g.current_depth - 1,
                           !.branch = "pop"] :
                    d \in randint(STACK_MOVE_MIN, STACK_MOVE_MAX)} :
           push \in Chance(PUSH_PROBABILITY)}

StackMoves_far(g) ==
    UNION {IF push /\ g.current_depth < MAX_STACK_DEPTH
           THEN {[g EXCEPT !.stack_pointer = g.stack_pointer - d,
                           !.current_depth = g.current_depth + 1,
                           !.branch = "push"] :
                    d \in randint(STACK_MOVE_MIN, STACK_MOVE_MAX + 1)}
           ELSE IF g.current_depth > 0
           THEN {[g EXCEPT !.stack_pointer = g.stack_pointer + d,
                           !.current_depth = g.current_depth - 1,
                           !.branch = "pop"] :
                    d \in randint(STACK_MOVE_MIN, STACK_MOVE_MAX + 1)}
           ELSE {[g EXCEPT !.branch = "stay"]} :
           push \in Chance(PUSH_PROBABILITY)}

\* The stack pointers and depths after the push, the pop or neither.
StackMoves(g) ==
    UNION {IF push /\ g.current_depth < MAX_STACK_DEPTH
           THEN {[g EXCEPT !.stack_pointer = g.stack_pointer - d,
                           !.current_depth = g.current_depth + 1,
                           !.branch = "push"] :
                    d \in randint(STACK_MOVE_MIN, STACK_MOVE_MAX)}
           ELSE IF g.current_depth > 0
           THEN {[g EXCEPT !.stack_pointer = g.stack_pointer + d,
                           !.current_depth = g.current_depth - 1,
                           !.branch = "pop"] :
                    d \in randint(STACK_MOVE_MIN, STACK_MOVE_MAX)}
           ELSE {[g EXCEPT !.branch = "stay"]} :
           push \in Chance(PUSH_PROBABILITY)}

StackIterate(g) ==
    IF g.i >= g.length THEN {Return(g)}
    ELSE {LET a == stack_clamp(m.stack_pointer, g.max_address)
          IN  Yield([m EXCEPT !.stack_pointer = a], a) :
          m \in StackMoves(g)}

\* ---- HeapPattern
heap_address_unclamped(base_address, current_offset, max_address) ==
    base_address + current_offset

heap_address(base_address, current_offset, max_address) ==
    Min(base_address + current_offset, max_address)

HeapEnter(g) ==
    IF validate_common_params(g.max_address, g.length) # "none" THEN {Raise(g)}
    ELSE LET max_heap_size == Min(DEFAULT_MAX_HEAP_SIZE, g.max_address \div 2)
         IN  OrRaise(g, {[g EXCEPT !.base_address = a, !.current_offset = 0] :
                            a \in randint(0, Max(0, g.max_address - max_heap_size))})

HeapOffsets_reuse_beyond(g) ==
    UNION {IF alloc
           THEN {[g EXCEPT !.current_offset = g.current_offset + d, !.branch = "allocate"] :
                    d \in randint(ALLOC_MIN, ALLOC_MAX)}
           ELSE {[g EXCEPT !.current_offset = o, !.branch = "reuse"] :
                    o \in randint(0, Max(1, g.current_offset) + 1)} :
           alloc \in Chance(ALLOCATION_PROBABILITY)}

\* The offsets after the allocation or the reuse.
HeapOffsets(g) ==
    UNION {IF alloc
           THEN {[g EXCEPT !.current_offset = g.current_offset + d, !.branch = "allocate"] :
                    d \in randint(ALLOC_MIN, ALLOC_MAX)}
           ELSE {[g EXCEPT !.current_offset = o, !.branch = "reuse"] :
                    o \in randint(0, Max(1, g.current_offset))} :
           alloc \in Chance(ALLOCATION_PROBABILITY)}

HeapIterate(g) ==
    IF g.i >= g.length THEN {Return(g)}
    ELSE {Yield(m, heap_address(m.base_address, m.current_offset, m.max_address)) :
          m \in HeapOffsets(g)}

\* ---- generate_random_params
\* The dicts generate_random_params(max_address, length) can return; none
\* when its random.randint raises on an empty range.  random.uniform draws
\* epsilon between its bounds, held in percent.
BaseRandomParams(max_address, length) ==
    {[max_address |-> max_address, length |-> length]}

SequentialRandomParams(max_address, length) ==
    {[max_address |-> max_address, length |-> length, epsilon |-> e] :
        e \in DEFAULT_EPSILON_MIN..DEFAULT_EPSILON_MAX}

LoopRandomParams(max_address, length) ==
    {[max_address |-> max_address, length |-> length, loop_size |-> k] :
        k \in randint(DEFAULT_LOOP_SIZE_MIN, Min(DEFAULT_LOOP_SIZE_MAX, max_address))}

StrideRandomParams(max_address, length) ==
    {[max_address |-> max_address, length |-> length, stride |-> k] :
        k \in randint(DEFAULT_STRIDE_MIN, DEFAULT_STRIDE_MAX)}

StackRandomParams_from_zero(max_address, length) ==
    {[max_address |-> max_address, length |-> length, stack_size |-> k] :
        k \in randint(0, DEFAULT_STACK_SIZE_MAX)}

StackRandomParams(max_address, length) ==
    {[max_address |-> max_address, length |-> length, stack_size |-> k] :
        k \in randint(DEFAULT_STACK_SIZE_MIN, DEFAULT_STACK_SIZE_MAX)}

generate_random_params(pattern, max_address, length) ==
    CASE pattern = "sequential" -> SequentialRandomParams(max_address, length)
      [] pattern = "loop" -> LoopRandomParams(max_address, length)
      [] pattern = "stride" -> StrideRandomParams(max_address, length)
      [] pattern = "stack" -> StackRandomParams(max_address, length)
      [] OTHER -> BaseRandomParams(max_address, length)

\* The kwarg generate_sequence of the pattern reads besides max_address and
\* length.
KwargOf(pattern) ==
    CASE pattern = "sequential" -> "epsilon"
      [] pattern = "loop" -> "loop_size"
      [] pattern = "stride" -> "stride"
      [] pattern = "stack" -> "stack_size"
      [] OTHER -> "none"

\* The arguments generate_random_params is called with.
SampleMaxAddresses ==
    (0..MaxMaxAddress)
        \cup {DEFAULT_LOOP_SIZE_MIN - 1, DEFAULT_LOOP_SIZE_MIN, DEFAULT_LOOP_SIZE_MIN + 1}

SampleLengths == 0..MaxSampleLength

\* A pattern object and the arguments its generate_random_params is about to
\* be called with.
Samplers ==
    {[NoGenerator EXCEPT !.pattern = pattern, !.max_address = max_address,
                         !.length = length, !.pc = "chosen"] :
        pattern \in Patterns, max_address \in SampleMaxAddresses, length \in SampleLengths}

\* ------------------------------------------------------------- the driver
\* No CacheDataset takes part.
NoDriver ==
    [pc |-> "none", ram_volume |-> 0, max_seq_length |-> 0, cache_lines |-> {},
     associativity_options |-> {}, epoch_size |-> 0, sequences_generator |-> FALSE,
     pulled |-> 0, addresses |-> <<>>, labels |-> <<>>]

\* No second cache takes part.
NoTwin ==
    [associativity |-> 0, num_sets |-> 0, lines_per_set |-> 0, cache |-> <<>>,
     tag_set |-> {}, raised |-> "none", ret |-> FALSE]

\* Mutant: the address is inserted before it is probed.
replay_insert_first(self, address) ==
    LET added == add_to_cache(self, address)
        probed == is_in_cache(added.self, address)
    IN  [label |-> IF probed.ret THEN 1 ELSE 0, raised |-> added.raised,
         found |-> added.found, lru_tag |-> added.lru_tag, self |-> probed.self]

\* The body of the loop of generate_data for one address on the cache self:
\* is_hit = cache.is_in_cache(address), the label, cache.add_to_cache(address).
replay(self, address) ==
    LET probed == is_in_cache(self, address)
        added == add_to_cache(probed.self, address)
    IN  [label |-> IF probed.ret THEN 1 ELSE 0, raised |-> added.raised,
         found |-> added.found, lru_tag |-> added.lru_tag, self |-> added.self]

\* ------------------------------------------------------------------ actions
\* Cache(line_size, num_lines, associativity) was called.
Constructed ==
    /\ line_size \in 1..MaxLineSize
    /\ num_lines \in 1..MaxNumLines
    /\ associativity \in 0..MaxNumLines
    /\ LET made == CacheInit(line_size, num_lines, associativity)
       IN  /\ raised = made.raised
           /\ num_sets = made.num_sets
           /\ lines_per_set = made.lines_per_set
           /\ cache = EmptyCache(made.num_sets)
           /\ inserted = [s \in 0..(made.num_sets - 1) |-> {}]
    /\ tag_set = {}
    /\ last = [op |-> "__init__", address |-> NoAddress, ret |-> FALSE, found |-> FALSE,
               lru_tag |-> NoTag, value |-> 0]
    /\ touch = NoTouch
    /\ hit_tag = NoTag
    /\ hit_set = 0
    /\ pending = {}
    /\ no_miss_since = FALSE
    /\ gen = NoGenerator
    /\ out = NoOutput
    /\ driver = NoDriver

Init == Constructed /\ twin = NoTwin

\* A call of is_in_cache(address) on a constructed cache.
IsInCache(address) ==
    /\ raised = "none"
    /\ LET res == is_in_cache(Self, address)
       IN  /\ cache' = res.self.cache
           /\ tag_set' = res.self.tag_set
           /\ last' = [op |-> "is_in_cache", address |-> address, ret |-> res.ret,
                      found |-> res.ret, lru_tag |-> NoTag, value |-> 0]
    /\ UNCHANGED <<config, raised, gen, out, driver>>

\* A call of add_to_cache(address) on a constructed cache.
AddToCache(address) ==
    /\ raised = "none"
    /\ LET res == add_to_cache(Self, address)
       IN  /\ cache' = res.self.cache
           /\ tag_set' = res.self.tag_set
           /\ raised' = res.raised
           /\ last' = [op |-> "add_to_cache", address |-> address, ret |-> FALSE,
                      found |-> res.found, lru_tag |-> res.lru_tag, value |-> 0]
    /\ UNCHANGED <<config, gen, out, driver>>

\* A call of reset_cache() on a constructed cache.
ResetCache ==
    /\ raised = "none"
    /\ LET res == reset_cache(Self)
       IN  /\ cache' = res.cache
           /\ tag_set' = res.tag_set
    /\ last' = [op |-> "reset_cache", address |-> NoAddress, ret |-> FALSE,
                found |-> FALSE, lru_tag |-> NoTag, value |-> 0]
    /\ UNCHANGED <<config, raised, gen, out, driver>>

Probe(address) == IsInCache(address) /\ UNCHANGED <<history, twin>>
Insert(address) == AddToCache(address) /\ UNCHANGED <<history, twin>>
Reset == ResetCache /\ UNCHANGED <<history, twin>>

Next ==
    \/ \E address \in Addresses : Probe(address)
    \/ \E address \in Addresses : Insert(address)
    \/ Reset

Spec == Init /\ [][Next]_vars

\* ---------------------------------- the same calls, with the mapping calls
\* A call of get_tag(address) on a constructed cache.
GetTag(address) ==
    /\ raised = "none"
    /\ last' = [op |-> "get_tag", address |-> address, ret |-> FALSE, found |-> FALSE,
                lru_tag |-> NoTag, value |-> get_tag(address)]
    /\ UNCHANGED <<config, cache, tag_set, raised, history, gen, out, driver, twin>>

\* A call of get_set_index(address) on a constructed cache.
GetSetIndex(address) ==
    /\ raised = "none"
    /\ last' = [op |-> "get_set_index", address |-> address, ret |-> FALSE,
                found |-> FALSE, lru_tag |-> NoTag, value |-> get_set_index(address)]
    /\ UNCHANGED <<config, cache, tag_set, raised, history, gen, out, driver, twin>>

NextMapping ==
    \/ \E address \in Addresses : Probe(address)
    \/ \E address \in Addresses : Insert(address)
    \/ Reset
    \/ \E address \in Addresses : GetTag(address)
    \/ \E address \in Addresses : GetSetIndex(address)

SpecMapping == Init /\ [][NextMapping]_vars

\* ----------------------- the same calls, with the step of the driver's loop
\* is_in_cache(address) followed by add_to_cache(address), as the loop of
\* generate_data calls them.
Replay(address) ==
    /\ raised = "none"
    /\ LET res == replay(Self, address)
       IN  /\ cache' = res.self.cache
           /\ tag_set' = res.self.tag_set
           /\ raised' = res.raised
           /\ last' = [op |-> "replay", address |-> address, ret |-> res.label = 1,
                      found |-> res.found, lru_tag |-> res.lru_tag, value |-> 0]
    /\ UNCHANGED <<config, history, gen, out, driver, twin>>

NextReplay ==
    \/ \E address \in Addresses : Probe(address)
    \/ \E address \in Addresses : Insert(address)
    \/ Reset
    \/ \E address \in Addresses : Replay(address)

SpecReplay == Init /\ [][NextReplay]_vars

\* ------------------------------------- two caches called side by side
\* The methods of Cache on a second object other, of the line_size and
\* num_lines of the first and an associativity of its own.
get_set_index_of(other, address) ==
    IF other.associativity = 0 THEN 0
    ELSE (address \div line_size) % other.num_sets

is_in_cache_of(other, address) ==
    LET set_idx == get_set_index_of(other, address)
        tag == address \div line_size
    IN  IF tag \in Keys(other.cache[set_idx])
        THEN [other EXCEPT !.cache[set_idx] = move_to_end(@, tag), !.ret = TRUE]
        ELSE [other EXCEPT !.ret = FALSE]

add_to_cache_of(other, address) ==
    LET set_idx == get_set_index_of(other, address)
        tag == address \div line_size
    IN  IF tag \in Keys(other.cache[set_idx])
        THEN [other EXCEPT !.cache[set_idx] = move_to_end(@, tag)]
        ELSE IF Len(other.cache[set_idx]) >= other.lines_per_set
        THEN IF other.cache[set_idx] = <<>>
             THEN [other EXCEPT !.raised = "KeyError"]
             ELSE LET popped == popitem(other.cache[set_idx])
                  IN  IF popped.key \notin other.tag_set
                      THEN [other EXCEPT !.cache[set_idx] = popped.od,
                                         !.raised = "KeyError"]
                      ELSE [other EXCEPT !.cache[set_idx] = setitem(popped.od, tag),
                                         !.tag_set = (@ \ {popped.key}) \cup {tag}]
        ELSE [other EXCEPT !.cache[set_idx] = setitem(@, tag),
                           !.tag_set = @ \cup {tag}]

reset_cache_of(other) ==
    [other EXCEPT !.cache = EmptyCache(other.num_sets), !.tag_set = {}]

\* Cache(line_size, num_lines, num_lines) with num_lines > 1, and beside it
\* Cache(line_size, num_lines, 0).
InitTwin ==
    /\ Constructed
    /\ num_lines > 1
    /\ associativity = num_lines
    /\ LET made == CacheInit(line_size, num_lines, 0)
       IN  twin = [associativity |-> 0, num_sets |-> made.num_sets,
                   lines_per_set |-> made.lines_per_set,
                   cache |-> EmptyCache(made.num_sets), tag_set |-> {},
                   raised |-> made.raised, ret |-> FALSE]

\* The same call on both caches.
ProbeBoth(address) ==
    /\ twin.raised = "none"
    /\ IsInCache(address)
    /\ twin' = is_in_cache_of(twin, address)
    /\ UNCHANGED history

InsertBoth(address) ==
    /\ twin.raised = "none"
    /\ AddToCache(address)
    /\ twin' = add_to_cache_of(twin, address)
    /\ UNCHANGED history

ResetBoth ==
    /\ twin.raised = "none"
    /\ ResetCache
    /\ twin' = reset_cache_of(twin)
    /\ UNCHANGED history

NextTwin ==
    \/ \E address \in Addresses : ProbeBoth(address)
    \/ \E address \in Addresses : InsertBoth(address)
    \/ ResetBoth

SpecTwin == InitTwin /\ [][NextTwin]_vars

\* ---------------------------- the same calls, with the recency of touches
\* The tags the call removed from the set of `address`.
Gone(address) ==
    Keys(cache[get_set_index(address)]) \ Keys(cache'[get_set_index(address)])

recency == <<touch>>
hits == <<hit_tag, hit_set, pending, no_miss_since>>
fill == <<inserted>>

ProbeTouch(address) ==
    /\ IsInCache(address)
    /\ LET set_idx == get_set_index(address)
       IN  IF last'.ret
           THEN touch' = Retouch(touch, Keys(cache[set_idx]), Keys(cache'[set_idx]),
                                 get_tag(address))
           ELSE UNCHANGED touch
    /\ UNCHANGED <<hits, fill, twin>>

InsertTouch(address) ==
    /\ AddToCache(address)
    /\ LET set_idx == get_set_index(address)
       IN  touch' = Retouch(touch, Keys(cache[set_idx]), Keys(cache'[set_idx]),
                            get_tag(address))
    /\ UNCHANGED <<hits, fill, twin>>

ResetTouch ==
    /\ ResetCache
    /\ touch' = NoTouch
    /\ UNCHANGED <<hits, fill, twin>>

NextRecency ==
    \/ \E address \in Addresses : ProbeTouch(address)
    \/ \E address \in Addresses : InsertTouch(address)
    \/ ResetTouch

SpecRecency == Init /\ [][NextRecency]_vars

\* ------------------------- the same calls, with the history of a probe hit
\* Any probe hit may become the watched one; a watched hit is followed until
\* its tag is evicted or the cache is reset.
ProbeHit(address) ==
    /\ IsInCache(address)
    /\ LET set_idx == get_set_index(address)
           tag == get_tag(address)
       IN  IF last'.ret
           THEN \/ /\ hit_tag' = tag
                   /\ hit_set' = set_idx
                   /\ pending' = Keys(cache[set_idx]) \ {tag}
                   /\ no_miss_since' = TRUE
                \/ /\ hit_tag # NoTag
                   /\ pending' = IF hit_set = set_idx THEN pending \ {tag} ELSE pending
                   /\ UNCHANGED <<hit_tag, hit_set, no_miss_since>>
           ELSE UNCHANGED hits
    /\ UNCHANGED <<recency, fill, twin>>

InsertHit(address) ==
    /\ AddToCache(address)
    /\ LET set_idx == get_set_index(address)
           tag == get_tag(address)
       IN  IF hit_tag = NoTag \/ hit_set # set_idx
           THEN UNCHANGED hits
           ELSE IF hit_tag \in Gone(address)
           THEN /\ hit_tag' = NoTag
                /\ hit_set' = 0
                /\ pending' = {}
                /\ no_miss_since' = FALSE
           ELSE /\ pending' = IF tag = hit_tag THEN pending \ Gone(address)
                              ELSE pending \ (Gone(address) \cup {tag})
                /\ no_miss_since' = (no_miss_since /\ tag \in Keys(cache[set_idx]))
                /\ UNCHANGED <<hit_tag, hit_set>>
    /\ UNCHANGED <<recency, fill, twin>>

ResetHit ==
    /\ ResetCache
    /\ hit_tag' = NoTag
    /\ hit_set' = 0
    /\ pending' = {}
    /\ no_miss_since' = FALSE
    /\ UNCHANGED <<recency, fill, twin>>

NextHits ==
    \/ \E address \in Addresses : ProbeHit(address)
    \/ \E address \in Addresses : InsertHit(address)
    \/ ResetHit

SpecHits == Init /\ [][NextHits]_vars

\* ---------------------- the same calls, with the tags inserted since reset
ProbeFill(address) ==
    /\ IsInCache(address)
    /\ UNCHANGED <<recency, hits, fill, twin>>

InsertFill(address) ==
    /\ AddToCache(address)
    /\ inserted' = [inserted EXCEPT ![get_set_index(address)] = @ \cup {get_tag(address)}]
    /\ UNCHANGED <<recency, hits, twin>>

ResetFill ==
    /\ ResetCache
    /\ inserted' = [s \in DOMAIN inserted |-> {}]
    /\ UNCHANGED <<recency, hits, twin>>

NextFill ==
    \/ \E address \in Addresses : ProbeFill(address)
    \/ \E address \in Addresses : InsertFill(address)
    \/ ResetFill

SpecFill == Init /\ [][NextFill]_vars

\* ------------------------------------------------- the pattern generators
\* The output after the generator ran to r: one more address if it yielded.
Emit(o, yielded, keep_trace) ==
    IF yielded = <<>> THEN o
    ELSE [count |-> o.count + 1, address |-> yielded[1], prev |-> o.address,
          trace |-> IF keep_trace THEN Append(o.trace, yielded[1]) ELSE o.trace]

\* The generate_sequence of the pattern of generator g: the code before its
\* loop, and an iteration of its loop.
Enter(g) ==
    CASE g.pattern = "sequential" -> SequentialEnter(g)
      [] g.pattern = "loop" -> LoopEnter(g)
      [] g.pattern = "random" -> RandomEnter(g)
      [] g.pattern = "stride" -> StrideEnter(g)
      [] g.pattern = "stack" -> StackEnter(g)
      [] g.pattern = "heap" -> HeapEnter(g)

Iterate(g) ==
    CASE g.pattern = "sequential" -> SequentialIterate(g)
      [] g.pattern = "loop" -> LoopIterate(g)
      [] g.pattern = "random" -> RandomIterate(g)
      [] g.pattern = "stride" -> StrideIterate(g)
      [] g.pattern = "stack" -> StackIterate(g)
      [] g.pattern = "heap" -> HeapIterate(g)

\* next() on the generator: a generator that has not started runs the code
\* before its loop and, unless that raised, the first iteration; a suspended
\* one runs from its yield.  A generator that raised or returned stays so.
Resume(keep_trace) ==
    /\ gen.pc \in {"created", "suspended"}
    /\ \E g \in (IF gen.pc = "created" THEN Enter(gen) ELSE {gen}) :
          IF g.pc = "raised"
          THEN gen' = g /\ out' = out
          ELSE \E r \in Iterate(g) :
                  /\ gen' = r.gen
                  /\ out' = Emit(out, r.yielded, keep_trace)
    /\ UNCHANGED <<config, cache, tag_set, raised, last, history, driver, twin>>

SequentialNext == gen.pattern = "sequential" /\ Resume(FALSE)
LoopNext == gen.pattern = "loop" /\ Resume(FALSE)
RandomNext == gen.pattern = "random" /\ Resume(FALSE)
StrideNext == gen.pattern = "stride" /\ Resume(FALSE)
StackNext == gen.pattern = "stack" /\ Resume(FALSE)
HeapNext == gen.pattern = "heap" /\ Resume(FALSE)

\* No cache takes part.
NoCache ==
    /\ line_size = 0
    /\ num_lines = 0
    /\ associativity = 0
    /\ num_sets = 0
    /\ lines_per_set = 0
    /\ cache = <<>>
    /\ tag_set = {}
    /\ raised = "none"
    /\ last = [op |-> "none", address |-> NoAddress, ret |-> FALSE, found |-> FALSE,
               lru_tag |-> NoTag, value |-> 0]
    /\ touch = NoTouch
    /\ hit_tag = NoTag
    /\ hit_set = 0
    /\ pending = {}
    /\ no_miss_since = FALSE
    /\ inserted = <<>>
    /\ twin = NoTwin

InitPatterns ==
    /\ NoCache
    /\ driver = NoDriver
    /\ gen \in Generators
    /\ out = NoOutput

NextPatterns ==
    \/ SequentialNext
    \/ LoopNext
    \/ RandomNext
    \/ StrideNext
    \/ StackNext
    \/ HeapNext

SpecPatterns == InitPatterns /\ [][NextPatterns]_vars

\* ---------------------------- a loop generator, with all it has yielded
InitLoopTrace == InitPatterns /\ gen.pattern = "loop"

LoopNextTrace == gen.pattern = "loop" /\ Resume(TRUE)

SpecLoopTrace == InitLoopTrace /\ [][LoopNextTrace]_vars

\* -------------------- a stack or heap generator, with all it has yielded
InitSpanTrace == InitPatterns /\ gen.pattern \in {"stack", "heap"}

StackNextTrace == gen.pattern = "stack" /\ Resume(TRUE)
HeapNextTrace == gen.pattern = "heap" /\ Resume(TRUE)

NextSpanTrace ==
    \/ StackNextTrace
    \/ HeapNextTrace

SpecSpanTrace == InitSpanTrace /\ [][NextSpanTrace]_vars

\* ------------------ random parameters, and a generator created with them
\* params = pattern.generate_random_params(max_address, length)
GenerateRandomParams ==
    /\ gen.pc = "chosen"
    /\ LET returned == generate_random_params(gen.pattern, gen.max_address, gen.length)
       IN  IF returned = {}
           THEN gen' = Raise(gen)
           ELSE \E params \in returned : gen' = [gen EXCEPT !.params = params, !.pc = "sampled"]
    /\ UNCHANGED <<config, cache, tag_set, raised, last, history, out, driver, twin>>

\* pattern.generate_sequence(**params)
GenerateSequence ==
    /\ gen.pc = "sampled"
    /\ gen' = [gen EXCEPT !.max_address = gen.params.max_address,
                          !.length = gen.params.length,
                          !.param = IF KwargOf(gen.pattern) \in DOMAIN gen.params
                                    THEN gen.params[KwargOf(gen.pattern)]
                                    ELSE 0,
                          !.pc = "created"]
    /\ UNCHANGED <<config, cache, tag_set, raised, last, history, out, driver, twin>>

InitSampling ==
    /\ NoCache
    /\ driver = NoDriver
    /\ gen \in Samplers
    /\ out = NoOutput

NextSampling ==
    \/ GenerateRandomParams
    \/ GenerateSequence
    \/ SequentialNext
    \/ LoopNext
    \/ RandomNext
    \/ StrideNext
    \/ StackNext
    \/ HeapNext

SpecSampling == InitSampling /\ [][NextSampling]_vars

\* ------------------------------------------------------------ CacheDataset
\* line_size: int = 64
DEFAULT_LINE_SIZE == 64

\* The addresses a caller-supplied sequences_generator yields: the first and
\* the last address of each of the lines 0..MaxLine.
DriverAddresses ==
    {line * DEFAULT_LINE_SIZE + offset :
        line \in 0..MaxLine, offset \in {0, DEFAULT_LINE_SIZE - 1}}

\* The arguments CacheDataset is called with; cache_lines and
\* cache_associativity_options are held as the sets random.choice draws from.
Datasets ==
    {[NoDriver EXCEPT !.pc = "new", !.ram_volume = ram_volume,
                      !.max_seq_length = max_seq_length, !.cache_lines = cache_lines,
                      !.associativity_options = associativity_options,
                      !.epoch_size = epoch_size,
                      !.sequences_generator = sequences_generator] :
        ram_volume \in {0, 2},
        max_seq_length \in 0..MaxSeqLength,
        cache_lines \in {{}, {0, 1}, {1, 2}},
        associativity_options \in {{}, {-1, 0}, {0, 1, 2}},
        epoch_size \in {0, 1},
        sequences_generator \in BOOLEAN}

\* CacheDataset.__init__: its parameter validation.
DatasetInit(d) ==
    IF d.ram_volume <= 0 THEN "ValueError"
    ELSE IF d.max_seq_length <= 0 THEN "ValueError"
    ELSE IF d.cache_lines = {} \/ \E lines \in d.cache_lines : lines <= 0 THEN "ValueError"
    ELSE IF d.associativity_options = {}
            \/ \E assoc \in d.associativity_options : assoc < 0 THEN "ValueError"
    ELSE IF d.epoch_size <= 0 THEN "ValueError"
    ELSE "none"

\* CacheDataset._generate_pattern_sequence: the generators it can return, one
\* per pattern and draw of the sampler; a sampler that raised leaves none.
generate_pattern_sequence(max_address, length) ==
    UNION {LET chosen == [NoGenerator EXCEPT !.pattern = pattern,
                                             !.max_address = max_address,
                                             !.length = length, !.pc = "chosen"]
               returned == generate_random_params(pattern, max_address, length)
           IN  IF returned = {} THEN {Raise(chosen)}
               ELSE {[chosen EXCEPT !.params = params,
                                    !.max_address = params.max_address,
                                    !.length = params.length,
                                    !.param = IF KwargOf(pattern) \in DOMAIN params
                                              THEN params[KwargOf(pattern)]
                                              ELSE 0,
                                    !.pc = "created"] : params \in returned} :
           pattern \in Patterns}

\* next(sequence) in the for statement of generate_data: the address yielded,
\* StopIteration or an exception, and the generator left.  A caller-supplied
\* sequence yields any address or stops.
Pull ==
    IF driver.sequences_generator
    THEN {[kind |-> "stop", address |-> NoAddress, gen |-> gen]}
         \cup (IF driver.pulled < MaxPulled
               THEN {[kind |-> "yield", address |-> address, gen |-> gen] :
                        address \in DriverAddresses}
               ELSE {})
    ELSE UNION {IF g.pc = "raised"
                THEN {[kind |-> "raise", address |-> NoAddress, gen |-> g]}
                ELSE {IF r.yielded = <<>>
                      THEN [kind |-> "stop", address |-> NoAddress, gen |-> r.gen]
                      ELSE [kind |-> "yield", address |-> r.yielded[1], gen |-> r.gen] :
                         r \in Iterate(g)} :
                g \in (IF gen.pc = "created" THEN Enter(gen) ELSE {gen})}

\* pad_length = max_seq_length - len(buffer); buffer.extend([-1] * pad_length)
\* if pad_length > 0.
pad(buffer, max_seq_length) ==
    LET pad_length == max_seq_length - Len(buffer)
    IN  IF pad_length > 0 THEN buffer \o [i \in 1..pad_length |-> -1] ELSE buffer

\* No CacheDataset has been called with generate_data yet: there is no cache.
InitDriver ==
    /\ NoCache
    /\ gen = NoGenerator
    /\ out = NoOutput
    /\ driver \in {[d EXCEPT !.pc = IF DatasetInit(d) = "none" THEN "constructed"
                                    ELSE "rejected"] : d \in Datasets}

\* generate_data down to cache = Cache(num_lines=num_lines,
\* associativity=associativity): a call after construction, or after an
\* earlier call returned or raised.
GenerateData ==
    /\ driver.pc \in {"constructed", "returned", "failed"}
    /\ \E nl \in driver.cache_lines : \E a \in driver.associativity_options :
          LET made == CacheInit(DEFAULT_LINE_SIZE, nl, a)
          IN  /\ line_size' = DEFAULT_LINE_SIZE
              /\ num_lines' = nl
              /\ associativity' = a
              /\ num_sets' = made.num_sets
              /\ lines_per_set' = made.lines_per_set
              /\ cache' = EmptyCache(made.num_sets)
              /\ tag_set' = {}
              /\ raised' = made.raised
              /\ driver' = [driver EXCEPT
                              !.pc = IF made.raised = "none" THEN "cached" ELSE "failed",
                              !.pulled = 0, !.addresses = <<>>, !.labels = <<>>]
    /\ last' = [op |-> "__init__", address |-> NoAddress, ret |-> FALSE,
                found |-> FALSE, lru_tag |-> NoTag, value |-> 0]
    /\ gen' = NoGenerator
    /\ UNCHANGED <<history, out, twin>>

\* generate_data from there to its for statement: the empty buffers and the
\* sequence, the caller's or a pattern's.
GenerateDataSequence ==
    /\ driver.pc = "cached"
    /\ IF driver.sequences_generator
       THEN /\ gen' = NoGenerator
            /\ driver' = [driver EXCEPT !.pc = "replaying"]
       ELSE \E g \in generate_pattern_sequence(driver.ram_volume - 1,
                                               driver.max_seq_length) :
               /\ gen' = g
               /\ driver' = [driver EXCEPT !.pc = IF g.pc = "raised" THEN "failed"
                                                  ELSE "replaying"]
    /\ UNCHANGED <<config, cache, tag_set, raised, last, history, out, twin>>

\* An iteration of the for statement of generate_data; when the sequence is
\* exhausted, the rest of generate_data.
GenerateDataStep ==
    /\ driver.pc = "replaying"
    /\ \E pulled \in Pull :
          /\ gen' = pulled.gen
          /\ CASE pulled.kind = "yield" ->
                    LET res == replay(Self, pulled.address)
                    IN  /\ cache' = res.self.cache
                        /\ tag_set' = res.self.tag_set
                        /\ raised' = res.raised
                        /\ last' = [op |-> "replay", address |-> pulled.address,
                                   ret |-> res.label = 1, found |-> res.found,
                                   lru_tag |-> res.lru_tag, value |-> 0]
                        /\ driver' = [driver EXCEPT
                                        !.pc = IF res.raised = "none" THEN "replaying"
                                               ELSE "failed",
                                        !.pulled = @ + 1,
                                        !.addresses = Append(@, pulled.address),
                                        !.labels = Append(@, res.label)]
               [] pulled.kind = "stop" ->
                    /\ driver' = [driver EXCEPT
                                    !.pc = "returned",
                                    !.addresses = pad(@, driver.max_seq_length),
                                    !.labels = pad(@, driver.max_seq_length)]
                    /\ UNCHANGED <<cache, tag_set, raised, last>>
               [] pulled.kind = "raise" ->
                    /\ driver' = [driver EXCEPT !.pc = "failed"]
                    /\ UNCHANGED <<cache, tag_set, raised, last>>
    /\ UNCHANGED <<config, history, out, twin>>

NextDriver ==
    \/ GenerateData
    \/ GenerateDataSequence
    \/ GenerateDataStep

SpecDriver == InitDriver /\ [][NextDriver]_vars

\* ------------------------------------------------------------------ claims
\* The tags of sequence od other than key, in their order.
Others(od, key) == SelectSeq(od, LAMBDA x : x # key)

\* C1: an insert of a tag that is not resident into a set that holds
\* lines_per_set tags evicts exactly one tag, the resident tag of that set
\* whose most recent touch is older than that of every other resident tag, and
\* the new tag becomes the most recently used entry of the set.
C1_InsertEvictsLeastRecentlyTouched ==
    [][last'.op = "add_to_cache" =>
         LET set_idx == get_set_index(last'.address)
             tag == last'.address \div line_size
             before == Keys(cache[set_idx])
             after == Keys(cache'[set_idx])
         IN  (tag \notin before /\ Len(cache[set_idx]) = lines_per_set) =>
                 /\ Cardinality(before \ after) = 1
                 /\ \A g \in before \ after :
                        \A u \in before \ {g} : touch[g] < touch[u]
                 /\ after = (before \cap after) \cup {tag}
                 /\ cache'[set_idx][Len(cache'[set_idx])] = tag]_vars

\* An insert evicted a tag of a full set of a cache with several sets of
\* several lines.
C1_Witness ==
    /\ last.op = "add_to_cache"
    /\ last.lru_tag # NoTag
    /\ associativity > 1
    /\ num_sets > 1
    /\ touch[get_tag(last.address)] = lines_per_set

\* C2: every set holds at most lines_per_set tags and no tag twice.
C2_SetsBoundedAndDuplicateFree ==
    \A set_idx \in DOMAIN cache :
        /\ Len(cache[set_idx]) <= lines_per_set
        /\ Cardinality(Keys(cache[set_idx])) = Len(cache[set_idx])

\* A set of several lines is full after an eviction.
C2_Witness ==
    /\ last.op = "add_to_cache"
    /\ last.lru_tag # NoTag
    /\ lines_per_set >= 2
    /\ Len(cache[get_set_index(last.address)]) = lines_per_set

\* C3: is_in_cache(address) returns true exactly when address div line_size
\* is resident in the set get_set_index(address) selects; every probe of a
\* freshly constructed or freshly reset cache returns false.
C3_ProbeReturnsResidency ==
    [][last'.op = "is_in_cache" =>
         /\ last'.ret = ((last'.address \div line_size)
                            \in Keys(cache[get_set_index(last'.address)]))
         /\ (last.op \in {"__init__", "reset_cache"} => last'.ret = FALSE)]_vars

\* A probe of an address that is not the first of its line hit.
C3_Witness ==
    /\ last.op = "is_in_cache"
    /\ last.ret
    /\ last.address % line_size # 0

\* C4: a probe that misses leaves the sets, their LRU order, the tag index and
\* the configuration unchanged.
C4_MissChangesNothing ==
    [][(last'.op = "is_in_cache" /\ ~last'.ret) =>
         /\ cache' = cache
         /\ tag_set' = tag_set
         /\ config' = config]_vars

\* A probe missed in a full set of several lines.
C4_Witness ==
    /\ last.op = "is_in_cache"
    /\ ~last.ret
    /\ lines_per_set >= 2
    /\ Len(cache[get_set_index(last.address)]) = lines_per_set

\* C5: a probe that hits moves the probed tag to the most recently used end of
\* its set; the members of the set and the relative order of the other tags
\* stay, the other sets and the tag index are unchanged.
C5_HitMovesTagToMRU ==
    [][(last'.op = "is_in_cache" /\ last'.ret) =>
         LET set_idx == get_set_index(last'.address)
             tag == last'.address \div line_size
         IN  /\ Keys(cache'[set_idx]) = Keys(cache[set_idx])
             /\ Len(cache'[set_idx]) = Len(cache[set_idx])
             /\ cache'[set_idx][Len(cache'[set_idx])] = tag
             /\ Others(cache'[set_idx], tag) = Others(cache[set_idx], tag)
             /\ \A other \in DOMAIN cache \ {set_idx} : cache'[other] = cache[other]
             /\ DOMAIN cache' = DOMAIN cache
             /\ tag_set' = tag_set
             /\ config' = config]_vars

\* A probe hit a tag of a set of at least three tags.
C5_Witness ==
    /\ last.op = "is_in_cache"
    /\ last.ret
    /\ Len(cache[get_set_index(last.address)]) >= 3

\* C6: right after add_to_cache(a) a probe of every address of the line of a
\* hits, and the insert makes no address of another line newly resident.
C6_InsertMakesLineResident ==
    [][last'.op = "add_to_cache" =>
         \A b \in Addresses :
             IF b \div line_size = last'.address \div line_size
             THEN is_in_cache(Self', b).ret
             ELSE is_in_cache(Self', b).ret => is_in_cache(Self, b).ret]_vars

\* An insert of an address of a line of several addresses evicted a tag.
C6_Witness ==
    /\ last.op = "add_to_cache"
    /\ last.lru_tag # NoTag
    /\ line_size >= 2
    /\ \E b \in Addresses \ {last.address} :
           b \div line_size = last.address \div line_size

\* C7 as stated: the tag of a probe hit is not evicted while another tag that
\* was resident in its set at the hit has been neither touched nor evicted
\* since; and in a set of two or more lines the first insert of a non-resident
\* tag after the hit does not evict it.
C7_FirstMissNeverEvictsHitTag ==
    [][last'.op = "add_to_cache" =>
         LET set_idx == get_set_index(last'.address)
         IN  (hit_tag # NoTag /\ hit_set = set_idx) =>
                 /\ hit_tag \notin Keys(cache'[set_idx]) => pending = {}
                 /\ (no_miss_since /\ lines_per_set >= 2 /\ ~last'.found)
                        => hit_tag \in Keys(cache'[set_idx])]_vars

\* C7 as amended: the tag of a probe hit is not evicted while another tag that
\* was resident in its set at the hit has been neither touched nor evicted
\* since; and in a set of two or more lines the first insert of a non-resident
\* tag after the hit does not evict it when no other tag of the set was touched
\* between the hit and that insert.
C7_HitTagOutlivesUntouchedTags ==
    [][last'.op = "add_to_cache" =>
         LET set_idx == get_set_index(last'.address)
         IN  (hit_tag # NoTag /\ hit_set = set_idx) =>
                 /\ hit_tag \notin Keys(cache'[set_idx]) => pending = {}
                 /\ (/\ no_miss_since
                     /\ lines_per_set >= 2
                     /\ ~last'.found
                     /\ pending = Keys(cache[set_idx]) \ {hit_tag})
                        => hit_tag \in Keys(cache'[set_idx])]_vars

\* An insert evicted another tag of the set of the watched hit, whose tag
\* stays with a tag that is still untouched since the hit.
C7_Witness ==
    /\ last.op = "add_to_cache"
    /\ last.lru_tag # NoTag
    /\ hit_tag # NoTag
    /\ hit_set = get_set_index(last.address)
    /\ hit_tag \in Keys(cache[hit_set])
    /\ pending # {}

\* C8: add_to_cache of a resident tag has the state effect of a hit: the tag
\* moves to the most recently used end, nothing is evicted, the set keeps its
\* size and holds the tag once; a second add_to_cache of the same address
\* leaves the state of the first.
C8_InsertOfResidentIsIdempotentTouch ==
    [][last'.op = "add_to_cache" =>
         LET set_idx == get_set_index(last'.address)
             tag == last'.address \div line_size
         IN  /\ tag \in Keys(cache[set_idx]) =>
                    /\ Self' = is_in_cache(Self, last'.address).self
                    /\ cache'[set_idx][Len(cache'[set_idx])] = tag
                    /\ Others(cache'[set_idx], tag) = Others(cache[set_idx], tag)
                    /\ Len(cache'[set_idx]) = Len(cache[set_idx])
                    /\ Keys(cache'[set_idx]) = Keys(cache[set_idx])
                    /\ Cardinality({i \in 1..Len(cache'[set_idx]) :
                                       cache'[set_idx][i] = tag}) = 1
                    /\ tag_set' = tag_set
             /\ add_to_cache(Self', last'.address).self = Self']_vars

\* An insert found its tag resident in a set of at least three tags.
C8_Witness ==
    /\ last.op = "add_to_cache"
    /\ last.found
    /\ Len(cache[get_set_index(last.address)]) >= 3

\* C9: two addresses of the same line get the same result and the same next
\* state from is_in_cache, and the same next state from add_to_cache.
C9_SameLineSameBehaviour ==
    raised = "none" =>
        \A a, b \in Addresses :
            a \div line_size = b \div line_size =>
                /\ is_in_cache(Self, a) = is_in_cache(Self, b)
                /\ add_to_cache(Self, a) = add_to_cache(Self, b)

\* Two addresses of one line, whose tag is resident in a full set.
C9_Witness ==
    /\ raised = "none"
    /\ \E a, b \in Addresses :
           /\ a # b
           /\ a \div line_size = b \div line_size
           /\ is_in_cache(Self, a).ret
           /\ Len(cache[get_set_index(a)]) = lines_per_set
           /\ lines_per_set >= 2

\* C10: while at most lines_per_set distinct tags were inserted into a set
\* since construction or the last reset, all of them are resident; in fully
\* associative mode up to num_lines distinct tags inserted all probe as hits.
C10_NoEvictionBelowCapacity ==
    raised = "none" =>
        /\ \A set_idx \in DOMAIN cache :
               Cardinality(inserted[set_idx]) <= lines_per_set =>
                   inserted[set_idx] \subseteq Keys(cache[set_idx])
        /\ (associativity = 0 /\ Cardinality(inserted[0]) <= num_lines) =>
               \A a \in Addresses :
                   (a \div line_size) \in inserted[0] => is_in_cache(Self, a).ret

\* A probe hit in a fully associative cache of at least three lines into which
\* num_lines distinct tags were inserted.
C10_Witness ==
    /\ associativity = 0
    /\ num_lines >= 3
    /\ Cardinality(inserted[0]) = num_lines
    /\ last.op = "is_in_cache"
    /\ last.ret

\* The tags resident in some set.
Resident == UNION {Keys(cache[set_idx]) : set_idx \in DOMAIN cache}

\* C11: in direct-mapped mode two distinct tags congruent modulo num_sets are
\* never resident together; an insert of an address of t2 while such a t1 is
\* resident leaves every probe of t1 a miss and every probe of t2 a hit.
C11_DirectMappedConflict ==
    [][associativity = 1 =>
         /\ \A t1, t2 \in Resident' :
                (t1 # t2) => (t1 % num_sets # t2 % num_sets)
         /\ last'.op = "add_to_cache" =>
                LET t2 == last'.address \div line_size
                IN  \A t1 \in Resident \ {t2} :
                        (t1 % num_sets = t2 % num_sets) =>
                            \A a \in Addresses :
                                /\ a \div line_size = t1 => ~is_in_cache(Self', a).ret
                                /\ a \div line_size = t2 => is_in_cache(Self', a).ret]_vars

\* An insert into a direct-mapped cache of several sets evicted the tag that
\* held the set.
C11_Witness ==
    /\ associativity = 1
    /\ num_sets >= 2
    /\ last.op = "add_to_cache"
    /\ last.lru_tag # NoTag
    /\ last.lru_tag % num_sets = (last.address \div line_size) % num_sets

\* C12: is_in_cache and add_to_cache leave the members and the order of every
\* set other than the one get_set_index selects unchanged, and a tag an insert
\* evicts maps to the set of the inserted tag.
C12_OtherSetsUnchanged ==
    [][last'.op \in {"is_in_cache", "add_to_cache"} =>
         LET set_idx == get_set_index(last'.address)
         IN  /\ DOMAIN cache' = DOMAIN cache
             /\ \A other \in DOMAIN cache \ {set_idx} : cache'[other] = cache[other]
             /\ \A g \in Resident \ Resident' :
                    get_set_index(g * line_size) = set_idx]_vars

\* An insert evicted a tag of its set while another set holds tags.
C12_Witness ==
    /\ last.op = "add_to_cache"
    /\ last.lru_tag # NoTag
    /\ \E other \in DOMAIN cache \ {get_set_index(last.address)} : cache[other] # <<>>

\* C13: construction raises ValueError exactly when associativity > 1 and
\* num_lines mod associativity # 0, which is the case for every associativity
\* greater than num_lines; otherwise it succeeds.
C13_ConstructionFailsExactlyOnIndivisible ==
    last.op = "__init__" =>
        /\ raised \in {"none", "ValueError"}
        /\ (raised = "ValueError") <=>
               (associativity > 1 /\ num_lines % associativity # 0)
        /\ (associativity > 1 /\ associativity > num_lines) => raised = "ValueError"

\* A construction with an associativity greater than num_lines raised.
C13_Witness ==
    /\ last.op = "__init__"
    /\ raised = "ValueError"
    /\ associativity > num_lines

\* C14: a constructed cache has (num_sets, lines_per_set) = (1, num_lines) for
\* associativity 0, (num_lines, 1) for associativity 1 and (num_lines / k, k)
\* for associativity k > 1, so num_sets * lines_per_set = num_lines; after
\* construction it has exactly the sets 0..num_sets-1, all empty.
C14_ConstructedCounts ==
    raised = "none" =>
        /\ associativity = 0 => (num_sets = 1 /\ lines_per_set = num_lines)
        /\ associativity = 1 => (num_sets = num_lines /\ lines_per_set = 1)
        /\ associativity > 1 =>
               (num_sets = num_lines \div associativity /\ lines_per_set = associativity)
        /\ num_sets * lines_per_set = num_lines
        /\ DOMAIN cache = 0..(num_sets - 1)
        /\ last.op = "__init__" =>
               /\ \A set_idx \in DOMAIN cache : cache[set_idx] = <<>>
               /\ tag_set = {}

\* A set-associative cache of several sets was constructed.
C14_Witness ==
    /\ last.op = "__init__"
    /\ raised = "none"
    /\ associativity > 1
    /\ num_sets > 1

\* C15: get_tag(address) returns address div line_size; get_set_index(address)
\* returns 0 in fully associative mode and the tag modulo num_sets otherwise,
\* always the index of a set; neither call changes the cache.
C15_MappingFunctions ==
    [][/\ last'.op = "get_tag" =>
              /\ last'.value = last'.address \div line_size
              /\ UNCHANGED <<config, cache, tag_set, raised>>
       /\ last'.op = "get_set_index" =>
              /\ last'.value = IF associativity = 0 THEN 0
                               ELSE (last'.address \div line_size) % num_sets
              /\ last'.value \in 0..(num_sets - 1)
              /\ last'.value \in DOMAIN cache
              /\ UNCHANGED <<config, cache, tag_set, raised>>]_vars

\* get_set_index returned the last set of a set-associative cache that holds
\* tags, for an address that is not the first of its line.
C15_Witness ==
    /\ last.op = "get_set_index"
    /\ associativity > 1
    /\ num_sets > 1
    /\ last.value = num_sets - 1
    /\ last.address % line_size # 0
    /\ tag_set # {}

\* C16: reset_cache leaves every set empty and the configuration unchanged,
\* which is the state construction with the same configuration leaves; from
\* then on every probe misses until the next insert.
C16_ResetRestoresConstructedState ==
    [][/\ last'.op = "reset_cache" =>
              /\ config' = config
              /\ DOMAIN cache' = DOMAIN cache
              /\ \A set_idx \in DOMAIN cache' : cache'[set_idx] = <<>>
              /\ cache' = EmptyCache(CacheInit(line_size, num_lines, associativity).num_sets)
              /\ tag_set' = {}
              /\ raised' = CacheInit(line_size, num_lines, associativity).raised
              /\ \A a \in Addresses : ~is_in_cache(Self', a).ret
       /\ (last.op \in {"reset_cache", "is_in_cache"} /\ Resident = {}
              /\ last'.op = "is_in_cache") =>
              (~last'.ret /\ Resident' = {})]_vars

\* A reset of a cache of several sets of several lines.
C16_Witness ==
    /\ last.op = "reset_cache"
    /\ num_sets >= 2
    /\ lines_per_set >= 2

\* C20: _validate_common_params raises ValueError exactly when
\* max_address <= 0 or length <= 0, and each of the six generators runs it
\* before anything else: a generator created with max_address <= 0 or
\* length <= 0 never yields an address, its first next() raises.
C20_CommonValidationGuardsEveryPattern ==
    /\ \A max_address \in -1..MaxMaxAddress, length \in Lengths :
          (validate_common_params(max_address, length) = "ValueError")
              <=> (max_address <= 0 \/ length <= 0)
    /\ (gen.max_address <= 0 \/ gen.length <= 0)
          => /\ out.count = 0
             /\ gen.pc \in {"created", "raised"}

C20_Witness ==
    /\ gen.pattern = "heap"
    /\ gen.max_address = 0
    /\ gen.length > 0
    /\ gen.pc = "raised"
    /\ out.count = 0

\* C18 as stated: for a stride generator with valid kwargs, any two
\* consecutive yielded addresses satisfy
\* (sequence[i+1] - sequence[i]) mod (max_address + 1) = stride.
C18_StrideDifferenceEqualsStride ==
    (gen.pattern = "stride" /\ out.count >= 2)
        => (out.address - out.prev) % (gen.max_address + 1) = gen.param

\* C18, amended: for a stride generator with valid kwargs, any two
\* consecutive yielded addresses satisfy
\* (sequence[i+1] - sequence[i]) mod (max_address + 1) = stride mod (max_address + 1),
\* which is stride itself when stride <= max_address.
C18_StrideDifferenceEqualsStrideModulo ==
    (gen.pattern = "stride" /\ out.count >= 2)
        => /\ (out.address - out.prev) % (gen.max_address + 1)
                 = gen.param % (gen.max_address + 1)
           /\ gen.param <= gen.max_address
                 => (out.address - out.prev) % (gen.max_address + 1) = gen.param

\* Two addresses yielded with a stride larger than max_address.
C18_Witness ==
    /\ gen.pattern = "stride"
    /\ out.count >= 2
    /\ gen.param > gen.max_address
    /\ gen.max_address >= 2

\* C19: a loop generator with valid kwargs yields at step i the address
\* start_address + (i mod loop_size): every address at an index
\* i >= loop_size equals the one at index i mod loop_size, the first
\* min(length, loop_size) addresses are start_address, start_address + 1, ...
\* in increasing order, and with loop_size = 1 all addresses are equal.
C19_LoopRepeatsItsFirstAddresses ==
    LET sequence == out.trace
        loop_size == gen.param
        \* the trace by the indices of the program, which start at 0
        at(i) == sequence[i + 1]
        indices == 0..(Len(sequence) - 1)
    IN  /\ Len(sequence) = out.count
        /\ \A i \in indices :
              /\ i >= loop_size => at(i) = at(i % loop_size)
              /\ i < loop_size => at(i) = gen.start_address + i
              /\ loop_size = 1 => at(i) = at(0)

\* A loop generator that went round its loop of several addresses and
\* started over.
C19_Witness ==
    /\ gen.pattern = "loop"
    /\ gen.param >= 2
    /\ Len(out.trace) > gen.param
    /\ out.trace[gen.param + 1] = out.trace[1]
    /\ out.trace[2] = out.trace[1] + 1

\* The kwargs of generator g pass the validation of its pattern.
PassesValidation(g) ==
    /\ g.max_address > 0
    /\ g.length > 0
    /\ CASE g.pattern = "sequential" -> 0 <= g.param /\ g.param <= 100
         [] g.pattern = "loop" -> 1 <= g.param /\ g.param <= g.max_address
         [] g.pattern = "stride" -> g.param >= 1
         [] g.pattern = "stack" -> g.param >= 0
         [] OTHER -> TRUE

\* C17: a generator of any of the six patterns whose kwargs pass validation
\* yields exactly length addresses, each in 0..max_address: it never raises,
\* it can always be resumed until it returns, it has yielded length addresses
\* when it returns and never more before, and every address is in range.
C17_YieldsLengthAddressesInRange ==
    PassesValidation(gen)
        => /\ gen.pc # "raised"
           /\ gen.pc \in {"created", "suspended"} => ENABLED NextPatterns
           /\ out.count <= gen.length
           /\ gen.pc = "done" => out.count = gen.length
           /\ gen.pc = "suspended" => out.count = gen.i
           /\ out.count >= 1 => out.address \in 0..gen.max_address

\* A stack generator of initial depth 0 with max_address below the headroom
\* ran to its end.
C17_Witness ==
    /\ gen.pattern = "stack"
    /\ gen.param = 0
    /\ gen.max_address = 1
    /\ gen.max_address < STACK_HEADROOM
    /\ gen.length = MaxLength
    /\ gen.pc = "done"
    /\ out.count = gen.length

\* The pattern-specific kwarg of generator g is outside its documented bound.
ParamOutOfBound(g) ==
    CASE g.pattern = "sequential" -> g.param < 0 \/ g.param > 100
      [] g.pattern = "loop" -> g.param < 1 \/ g.param > g.max_address
      [] g.pattern = "stride" -> g.param < 1
      [] g.pattern = "stack" -> g.param < 0
      [] OTHER -> FALSE

\* C21: a generator whose pattern-specific kwarg is outside its bound
\* (epsilon outside [0, 1], loop_size outside [1, max_address], stride < 1,
\* stack_size < 0) raises ValueError on its first next() and never yields an
\* address; the bounds themselves are accepted: with valid max_address and
\* length, epsilon 0 and 1, loop_size 1 and max_address, stride 1 and
\* stack_size 0 do not raise.
C21_ParamOutOfBoundIsRejected ==
    /\ ParamOutOfBound(gen)
          => /\ out.count = 0
             /\ gen.pc \in {"created", "raised"}
    /\ (gen.max_address > 0 /\ gen.length > 0 /\ gen.pc = "raised")
          => ParamOutOfBound(gen)

\* A loop generator with loop_size = max_address + 1 raised on its first
\* next().
C21_Witness ==
    /\ gen.pattern = "loop"
    /\ gen.max_address > 0
    /\ gen.length > 0
    /\ gen.param = gen.max_address + 1
    /\ gen.pc = "raised"
    /\ out.count = 0

\* C22: once the kwargs of a generator passed validation, every one of its
\* length pulls returns an address and none raises, whatever the random
\* draws: a next() on a generator with valid kwargs that has yielded fewer
\* than length addresses leaves it suspended at a yield with one address more.
C22_EveryPullReturnsAnAddress ==
    [][(PassesValidation(gen) /\ out.count < gen.length)
          => /\ gen'.pc = "suspended"
             /\ out'.count = out.count + 1
             /\ out'.address \in 0..gen.max_address]_vars

\* The last of the pulls of a loop generator whose loop_size is max_address,
\* where the range of the start address is the single address 0.
C22_Witness ==
    /\ gen.pattern = "loop"
    /\ gen.param = gen.max_address
    /\ gen.length = MaxLength
    /\ gen.pc = "suspended"
    /\ out.count = gen.length

\* The keys of the dict generate_random_params of the pattern returns.
DocumentedKeys(pattern) ==
    {"max_address", "length"}
        \cup (IF pattern \in {"random", "heap"} THEN {} ELSE {KwargOf(pattern)})

\* C23: the dict generate_random_params(max_address, length) returns holds
\* max_address and length unchanged and, besides them, exactly the kwarg of
\* the pattern, drawn in its range: loop_size in [10, min(1000, max_address)],
\* stride in [1, 16], stack_size in [10, 100], epsilon in [0.01, 0.1]
\* (1 to 10 percent), and nothing for random and heap.
C23_RandomParamsInDocumentedRanges ==
    gen.pc = "sampled"
        => /\ DOMAIN gen.params = DocumentedKeys(gen.pattern)
           /\ gen.params.max_address = gen.max_address
           /\ gen.params.length = gen.length
           /\ gen.pattern = "loop"
                 => gen.params.loop_size \in
                       DEFAULT_LOOP_SIZE_MIN..Min(DEFAULT_LOOP_SIZE_MAX, gen.max_address)
           /\ gen.pattern = "stride"
                 => gen.params.stride \in DEFAULT_STRIDE_MIN..DEFAULT_STRIDE_MAX
           /\ gen.pattern = "stack"
                 => gen.params.stack_size \in DEFAULT_STACK_SIZE_MIN..DEFAULT_STACK_SIZE_MAX
           /\ gen.pattern = "sequential"
                 => gen.params.epsilon \in DEFAULT_EPSILON_MIN..DEFAULT_EPSILON_MAX

\* A loop pattern returned a loop_size above the least one.
C23_Witness ==
    /\ gen.pc = "sampled"
    /\ gen.pattern = "loop"
    /\ gen.params.loop_size = gen.max_address
    /\ gen.params.loop_size > DEFAULT_LOOP_SIZE_MIN

\* C24 as stated: the call generate_sequence(**params) itself raises on
\* invalid parameters, so that no generator built from invalid parameters
\* ever exists.
C24_CallRejectsInvalidParams ==
    gen.pc = "created" => PassesValidation(gen)

\* C24, amended: the call generate_sequence(**params) never raises, it
\* returns a generator whatever the parameters; a generator built from
\* invalid parameters raises ValueError on its first next(), before it has
\* yielded any address.
C24_FirstPullRejectsInvalidParams ==
    [][/\ gen.pc = "sampled" => gen'.pc = "created"
       /\ (gen.pc = "created" /\ ~PassesValidation(gen))
             => /\ gen'.pc = "raised"
                /\ out'.count = 0]_vars

\* A generator that the call returned for max_address = 0 raised on its
\* first next().
C24_Witness ==
    /\ gen.pc = "raised"
    /\ DOMAIN gen.params # {}
    /\ gen.max_address = 0
    /\ gen.length > 0
    /\ out.count = 0

\* C25: for every pattern and every max_address > 0 and length > 0,
\* generate_random_params(max_address, length) returns a dict and
\* generate_sequence accepts it: neither the sampling nor any pull of the
\* generator created with the dict raises.
C25_SampledParamsAreAccepted ==
    (gen.max_address > 0 /\ gen.length > 0) => gen.pc # "raised"

\* C26: the depth of a stack generator starts at stack_size and stays in
\* [0, max(100, stack_size)]; an iteration pushes (pointer down by 1 to 10,
\* depth + 1) only when the depth is below 100, pops (pointer up by 1 to 10,
\* depth - 1) only when the depth is above 0, and when the depth is 0 and it
\* does not push the pointer stays, so that it yields the address it yielded
\* before.  The pointer is clamped to [0, max_address] after the move.
C26_StackDepthGuardsPushAndPop ==
    [][(gen.pattern = "stack" /\ gen'.pc = "suspended")
          => LET first == gen.pc = "created"
                 depth == IF first THEN gen.param ELSE gen.current_depth
                 pointer == gen.stack_pointer
                 moved(by) == stack_clamp(pointer + by, gen.max_address)
                 moves == STACK_MOVE_MIN..STACK_MOVE_MAX
             IN  /\ depth \in 0..Max(MAX_STACK_DEPTH, gen.param)
                 /\ gen'.current_depth \in 0..Max(MAX_STACK_DEPTH, gen.param)
                 /\ gen'.branch \in {"push", "pop", "stay"}
                 /\ gen'.branch = "push"
                       => /\ depth < MAX_STACK_DEPTH
                          /\ gen'.current_depth = depth + 1
                          /\ ~first => \E d \in moves : gen'.stack_pointer = moved(-d)
                 /\ gen'.branch = "pop"
                       => /\ depth > 0
                          /\ gen'.current_depth = depth - 1
                          /\ ~first => \E d \in moves : gen'.stack_pointer = moved(d)
                 /\ gen'.branch = "stay"
                       => /\ depth = 0
                          /\ gen'.current_depth = 0
                          /\ ~first => /\ gen'.stack_pointer = pointer
                                       /\ out'.address = out.address
                 /\ depth = 0 => gen'.branch \in {"push", "stay"}
                 /\ depth >= MAX_STACK_DEPTH => gen'.branch = "pop"]_vars

\* A stack generator away from both ends of the address range, at depth 0,
\* did not move and yielded the same address again.
C26_Witness ==
    /\ gen.pattern = "stack"
    /\ gen.max_address = StackFarAddress
    /\ gen.branch = "stay"
    /\ gen.current_depth = 0
    /\ out.count >= 2
    /\ out.address = out.prev

\* The largest and the smallest address of a sequence that is not empty.
Highest(sequence) ==
    CHOOSE a \in {sequence[k] : k \in DOMAIN sequence} :
        \A k \in DOMAIN sequence : sequence[k] <= a

Lowest(sequence) ==
    CHOOSE a \in {sequence[k] : k \in DOMAIN sequence} :
        \A k \in DOMAIN sequence : sequence[k] >= a

\* C27: any two consecutive addresses of a stack generator differ by at most
\* 10, the clamp included, so the span max(sequence) - min(sequence) of the
\* addresses it has yielded is at most 10 * (their number - 1), and so at
\* most 10 * (length - 1).
C27_StackStepsAtMostTen ==
    (gen.pattern = "stack" /\ out.count >= 1)
        => LET sequence == out.trace
           IN  /\ Len(sequence) = out.count
               /\ \A k \in 1..(Len(sequence) - 1) :
                     /\ sequence[k + 1] - sequence[k] <= STACK_MOVE_MAX
                     /\ sequence[k] - sequence[k + 1] <= STACK_MOVE_MAX
               /\ Highest(sequence) - Lowest(sequence)
                     <= STACK_MOVE_MAX * (Len(sequence) - 1)
               /\ Highest(sequence) - Lowest(sequence)
                     <= STACK_MOVE_MAX * (gen.length - 1)

\* A stack generator moved by 10 at each of its steps in one direction: its
\* span is the largest there is.
C27_Witness ==
    /\ gen.pattern = "stack"
    /\ out.count = MaxLength
    /\ Highest(out.trace) - Lowest(out.trace) = STACK_MOVE_MAX * (MaxLength - 1)

\* C28 as stated: for every valid max_address the stack pointer a stack
\* generator starts with keeps a headroom of 1000 at each boundary,
\* 1000 <= pointer <= max_address - 1000, and so lies in [0, max_address].
C28_InitialPointerKeepsHeadroom ==
    (gen.pattern = "stack" /\ gen.pc = "created" /\ PassesValidation(gen))
        => \A g \in StackEnter(gen) :
              /\ STACK_HEADROOM <= g.stack_pointer
              /\ g.stack_pointer <= gen.max_address - STACK_HEADROOM
              /\ g.stack_pointer \in 0..gen.max_address

\* C28, amended: the stack pointer a stack generator starts with lies in
\* [1000, max(1000, max_address - 1000)]: in [1000, max_address - 1000] when
\* max_address >= 2000, and it is 1000 when max_address < 2000, which is
\* above max_address when max_address < 1000.  The first address yielded is
\* that pointer moved by at most 10 and clamped to [0, max_address].
C28_InitialPointerInFlooredRange ==
    LET safe == STACK_HEADROOM..Max(STACK_HEADROOM, gen.max_address - STACK_HEADROOM)
    IN  /\ (gen.pattern = "stack" /\ gen.pc = "created" /\ PassesValidation(gen))
              => \A g \in StackEnter(gen) :
                    /\ g.pc # "raised"
                    /\ g.stack_pointer \in safe
                    /\ gen.max_address >= 2 * STACK_HEADROOM
                          => g.stack_pointer <= gen.max_address - STACK_HEADROOM
                    /\ gen.max_address < 2 * STACK_HEADROOM
                          => g.stack_pointer = STACK_HEADROOM
                    /\ gen.max_address < STACK_HEADROOM
                          => g.stack_pointer > gen.max_address
        /\ (gen.pattern = "stack" /\ out.count = 1)
              => \E pointer \in safe, d \in (-STACK_MOVE_MAX)..STACK_MOVE_MAX :
                    out.address = stack_clamp(pointer + d, gen.max_address)

\* A stack generator with room for the headroom at both ends started at
\* max_address - 1000, the top of its range, and popped by 10.
C28_Witness ==
    /\ gen.pattern = "stack"
    /\ gen.max_address >= 2 * STACK_HEADROOM
    /\ out.count = 1
    /\ out.address = gen.max_address - STACK_HEADROOM + STACK_MOVE_MAX

\* The heap capacity max_heap_size of a heap generator.
HeapCapacity(max_address) == Min(DEFAULT_MAX_HEAP_SIZE, max_address \div 2)

C30_ReuseNeverIncreasesOffset ==
    [][(gen.pattern = "heap" /\ gen'.pc = "suspended")
          => /\ gen'.branch = "reuse" => gen'.current_offset <= gen.current_offset
             /\ gen'.branch = "allocate"
                   => gen'.current_offset - gen.current_offset \in ALLOC_MIN..ALLOC_MAX]_vars

\* C30, amended: a reuse step of a heap generator leaves an offset in
\* [0, max(1, offset before)]: never greater than the offset before it,
\* except that from offset 0 it may leave offset 1; an allocation step
\* increases the offset by between 1 and 100.
C30_ReuseStaysWithinUsedRangeOrOne ==
    [][(gen.pattern = "heap" /\ gen'.pc = "suspended")
          => /\ gen'.branch \in {"reuse", "allocate"}
             /\ gen'.branch = "reuse"
                   => /\ gen'.current_offset \in 0..Max(1, gen.current_offset)
                      /\ gen.current_offset >= 1
                            => gen'.current_offset <= gen.current_offset
             /\ gen'.branch = "allocate"
                   => gen'.current_offset - gen.current_offset \in ALLOC_MIN..ALLOC_MAX]_vars

\* The first step of a heap generator was a reuse step that left offset 1.
C30_Witness ==
    /\ gen.pattern = "heap"
    /\ gen.branch = "reuse"
    /\ out.count = 1
    /\ gen.current_offset = 1

\* C31: every address a sequential generator yields after its first is the
\* address before it plus 1 modulo max_address + 1, or a jump to an address
\* of [0, max_address]; with epsilon = 0 there is no jump:
\* (sequence[i+1] - sequence[i]) mod (max_address + 1) = 1 for every
\* consecutive pair, also from max_address to 0.
C31_SequentialAdvancesByOneOrJumps ==
    (gen.pattern = "sequential" /\ out.count >= 2)
        => LET step == (out.address - out.prev) % (gen.max_address + 1)
           IN  /\ \/ out.address = (out.prev + 1) % (gen.max_address + 1)
                  \/ gen.param > 0 /\ out.address \in 0..gen.max_address
               /\ gen.param = 0 => step = 1
               /\ (gen.param = 0 /\ out.prev = gen.max_address) => out.address = 0

\* A sequential generator with epsilon = 0 went from max_address to 0.
C31_Witness ==
    /\ gen.pattern = "sequential"
    /\ gen.param = 0
    /\ gen.max_address >= 2
    /\ out.count >= 2
    /\ out.prev = gen.max_address
    /\ out.address = 0

\* ------------------------------------------------ placement and tag index
\* C37: in every state of a constructed cache every tag resident in set s
\* satisfies tag mod num_sets = s, and s = 0 in fully associative mode; no tag
\* is resident in two sets; a probe hits exactly when the tag is resident in
\* some set.
C37_PlacementInvariant ==
    raised = "none" =>
        /\ \A s \in DOMAIN cache : \A tag \in Keys(cache[s]) :
               /\ tag % num_sets = s
               /\ associativity = 0 => s = 0
        /\ \A s \in DOMAIN cache : \A t \in DOMAIN cache :
               s # t => Keys(cache[s]) \cap Keys(cache[t]) = {}
        /\ \A address \in Addresses :
               is_in_cache(Self, address).ret <=> address \div line_size \in Resident

\* Two sets of a set-associative cache with lines of several addresses hold
\* tags, one of them a tag that differs from the address inserted last.
C37_Witness ==
    /\ raised = "none"
    /\ associativity > 1
    /\ num_sets > 1
    /\ line_size >= 2
    /\ \A s \in DOMAIN cache : cache[s] # <<>>
    /\ last.op = "add_to_cache"
    /\ last.address \div line_size # last.address

\* C38: no probe, insert or reset on a constructed cache raises: in every
\* state the set index of every address names an existing set, an insert that
\* has to evict finds its set non-empty and the tag it pops in the tag index,
\* and no call has ended with an exception.
C38_NoCallRaises ==
    raised = "none" =>
        \A address \in Addresses :
            LET set_idx == get_set_index(address)
            IN  /\ set_idx \in DOMAIN cache
                /\ add_to_cache(Self, address).raised = "none"
                /\ (address \div line_size \notin Keys(cache[set_idx])
                      /\ Len(cache[set_idx]) >= lines_per_set)
                     => /\ cache[set_idx] # <<>>
                        /\ Head(cache[set_idx]) \in tag_set

\* An insert evicted a tag from the last set of a cache of several sets while
\* the first set was empty.
C38_Witness ==
    /\ raised = "none"
    /\ last.op = "add_to_cache"
    /\ last.lru_tag # NoTag
    /\ num_sets > 1
    /\ get_set_index(last.address) = num_sets - 1
    /\ cache[0] = <<>>

\* The number of lines resident in all sets together.
ResidentLines ==
    Cardinality(UNION {{<<s, i>> : i \in 1..Len(cache[s])} : s \in DOMAIN cache})

\* C39: in every state of a constructed cache the tag index equals the union
\* of the tags resident in the sets, its size equals the number of resident
\* lines, and that number is at most num_lines.
C39_TagIndexConsistent ==
    raised = "none" =>
        /\ tag_set = Resident
        /\ Cardinality(tag_set) = ResidentLines
        /\ ResidentLines <= num_lines

\* A cache of several sets of several lines is completely full after an
\* eviction.
C39_Witness ==
    /\ raised = "none"
    /\ last.op = "add_to_cache"
    /\ last.lru_tag # NoTag
    /\ num_sets > 1
    /\ lines_per_set > 1
    /\ ResidentLines = num_lines

\* ------------------------------------------------------- the driver's step
\* C35: a step of the driver's loop, is_in_cache(a) followed by
\* add_to_cache(a), leaves the sets, their LRU order and the tag index exactly
\* as add_to_cache(a) alone would have left them, raises nothing, and leaves
\* the tag of a at the most recently used end of its set.
C35_ProbeThenInsertEqualsInsert ==
    [][last'.op = "replay" =>
         LET set_idx == get_set_index(last'.address)
             alone == add_to_cache(Self, last'.address)
         IN  /\ Self' = alone.self
             /\ raised' = alone.raised
             /\ raised' = "none"
             /\ last'.lru_tag = alone.lru_tag
             /\ cache'[set_idx] # <<>>
             /\ cache'[set_idx][Len(cache'[set_idx])] = last'.address \div line_size]_vars

\* A step whose probe hit in a set of at least three tags.
C35_Witness ==
    /\ last.op = "replay"
    /\ last.ret
    /\ Len(cache[get_set_index(last.address)]) >= 3

\* ------------------------------------ one k-way set and full associativity
\* C36: Cache(line_size, num_lines, k) with k = num_lines > 1 and
\* Cache(line_size, num_lines, 0), given the same probes, inserts and resets,
\* return the same probe results and hold the same tags in the same LRU order
\* in the same single set; neither raises.
C36_SingleSetEqualsFullyAssociative ==
    /\ associativity = num_lines /\ twin.associativity = 0
    /\ raised = "none" /\ twin.raised = "none"
    /\ num_sets = 1 /\ twin.num_sets = 1
    /\ lines_per_set = twin.lines_per_set
    /\ cache = twin.cache
    /\ tag_set = twin.tag_set
    /\ last.op = "is_in_cache" => last.ret = twin.ret
    /\ \A address \in Addresses :
           is_in_cache(Self, address).ret = is_in_cache_of(twin, address).ret

\* A probe hit in both caches after an insert had evicted a tag from them and
\* left at least three tags.
C36_Witness ==
    /\ associativity = num_lines
    /\ num_lines > 2
    /\ last.op = "is_in_cache"
    /\ last.ret /\ twin.ret
    /\ Len(cache[0]) = num_lines
    /\ Len(twin.cache[0]) = num_lines
    /\ cache[0][Len(cache[0])] = last.address \div line_size

\* ------------------------------------------------------------ the driver
\* C32: generate_data replays the sequence on a cache that is empty when the
\* sample starts; each address pulled adds that address and exactly one label
\* to the buffers, in order and leaving the earlier entries as they were; the
\* label is 1 exactly when the tag of the address was resident just before the
\* step and 0 otherwise; so the first address of a tag in a sample is labelled
\* 0 and an address whose tag is that of the address just before it is
\* labelled 1; after the step the tag is resident.
C32_ReplayLabelsResidency ==
    [][/\ (driver.pc # "cached" /\ driver'.pc = "cached") =>
              /\ Resident' = {}
              /\ tag_set' = {}
              /\ driver'.addresses = <<>> /\ driver'.labels = <<>>
       /\ (driver.pc = "replaying" /\ last'.op = "replay"
             /\ driver'.pulled = driver.pulled + 1) =>
              LET n == Len(driver.addresses)
                  address == driver'.addresses[n + 1]
                  tag == address \div line_size
                  label == driver'.labels[n + 1]
              IN  /\ Len(driver.labels) = n
                  /\ Len(driver'.addresses) = n + 1
                  /\ Len(driver'.labels) = n + 1
                  /\ SubSeq(driver'.addresses, 1, n) = driver.addresses
                  /\ SubSeq(driver'.labels, 1, n) = driver.labels
                  /\ address = last'.address
                  /\ label = IF tag \in Resident THEN 1 ELSE 0
                  /\ (\A i \in 1..n : driver.addresses[i] \div line_size # tag)
                        => label = 0
                  /\ (n >= 1 /\ driver.addresses[n] \div line_size = tag) => label = 1
                  /\ tag \in Resident']_vars

\* Three addresses were replayed on a cache of one line: a miss, a hit of
\* another address of the same line, and a miss.
C32_Witness ==
    /\ driver.pc = "replaying"
    /\ num_lines = 1
    /\ Len(driver.addresses) = 3
    /\ driver.labels = <<0, 1, 0>>
    /\ driver.addresses[1] # driver.addresses[2]
    /\ driver.addresses[1] \div line_size = driver.addresses[2] \div line_size

\* C33: every sample generate_data returns has an address buffer and a label
\* buffer of length max_seq_length: the addresses pulled and their labels in
\* front, unchanged, then -1 in both buffers; a sequence longer than
\* max_seq_length is cut to max_seq_length.
C33_BuffersHaveMaxSeqLength ==
    driver.pc = "returned" =>
        /\ Len(driver.addresses) = driver.max_seq_length
        /\ Len(driver.labels) = driver.max_seq_length
        /\ \A i \in 1..driver.max_seq_length :
               IF i <= driver.pulled
               THEN driver.addresses[i] >= 0 /\ driver.labels[i] \in {0, 1}
               ELSE driver.addresses[i] = -1 /\ driver.labels[i] = -1

\* C34: once CacheDataset is constructed, the Cache of every sample is
\* constructed too: no pair of a candidate line count and a candidate
\* associativity makes Cache raise ValueError.
C34_EveryDrawnCacheConstructs ==
    driver.pc \notin {"none", "new", "rejected"} =>
        /\ raised # "ValueError"
        /\ \A nl \in driver.cache_lines : \A a \in driver.associativity_options :
               CacheInit(DEFAULT_LINE_SIZE, nl, a).raised = "none"
====
